---- MODULE Spec2Model ----
(***************************************************************************)
(* Feature-flag composition of the hub facade crate.                       *)
(*                                                                         *)
(* The crate has no runtime state: what it "does" is decide, for a feature *)
(* selection, which re-exports, prelude members, group-module members and  *)
(* enabled_features() entries compile in.  The state machine below is the  *)
(* build: a consumer edits the feature selection, cargo resolves it, and   *)
(* rustc evaluates every #[cfg(feature = "...")] of the sources.           *)
(***************************************************************************)
EXTENDS FiniteSets, Integers, Sequences, TLC

\* Largest number of features a consumer names in one selection.
MaxSelected == 2

----------------------------------------------------------------------------
\* Feature names

\* The 21 per-crate features tested by lib.rs, in the order of the file.
CrateFeatures ==
    { "anyhow", "base64", "chrono", "clap", "glob", "lazy_static", "libc",
      "portable-pty", "rand", "regex", "serde", "serde_json", "serde_yaml",
      "strip-ansi-escapes", "tokio", "urlencoding", "uuid", "unicode-width",
      "criterion", "thiserror", "tempfile" }

\* Group features named by the crate documentation.
GroupFeatures ==
    { "text-ext", "data-ext", "time-ext", "web-ext", "system-ext",
      "terminal-ext", "random-ext", "async-ext", "cli-ext", "error-ext",
      "test-ext" }

\* Convenience groups named by the crate documentation.
ConvenienceFeatures == { "common-ext", "core-ext", "extended-ext", "dev-ext" }

\* Internal groups named by the crate documentation.
InternalFeatures == { "core", "colors" }

\* Features that only the tests and the shaped modules name.
ShapedFeatures ==
    { "json", "serde-derive", "serde-json", "clap-full", "tokio-full" }

HubFeatures ==
    CrateFeatures \cup GroupFeatures \cup ConvenienceFeatures
        \cup InternalFeatures \cup ShapedFeatures

\* Features of dependencies that a hub feature can switch on.
DepFeatures == { "serde/derive" }

----------------------------------------------------------------------------
\* Feature forwarding (the [features] table of the manifest)

Forward ==
    [ f \in HubFeatures |->
        CASE f = "text-ext"     -> { "regex", "lazy_static", "strip-ansi-escapes" }
          [] f = "data-ext"     -> { "serde-derive", "serde-json", "base64" }
          [] f = "time-ext"     -> { "chrono", "uuid" }
          [] f = "web-ext"      -> { "urlencoding" }
          [] f = "system-ext"   -> { "libc", "glob" }
          [] f = "terminal-ext" -> { "portable-pty" }
          [] f = "random-ext"   -> { "rand" }
          [] f = "async-ext"    -> { "tokio" }
          [] f = "cli-ext"      -> { "clap", "anyhow" }
          [] f = "error-ext"    -> { "anyhow", "thiserror" }
          [] f = "test-ext"     -> { "criterion", "tempfile" }
          [] f = "common-ext"   -> { "text-ext", "data-ext", "error-ext" }
          [] f = "core-ext"     -> { "text-ext", "data-ext", "time-ext", "error-ext" }
          [] f = "extended-ext" -> { "core-ext", "web-ext", "system-ext", "cli-ext" }
          [] f = "dev-ext"      -> GroupFeatures
          [] f = "core"         -> { "colors" }
          [] f = "json"         -> { "serde-derive", "serde-json" }
          [] f = "serde-derive" -> { "serde", "serde/derive" }
          [] f = "serde-json"   -> { "serde_json" }
          [] OTHER              -> {} ]

\* One round of forwarding: every feature a member of S switches on.
Step(S) == S \cup UNION { Forward[f] : f \in S \cap HubFeatures }

RECURSIVE Resolve(_)
\* Cargo's feature resolution: the least set closed under Forward.
Resolve(S) == IF Step(S) = S THEN S ELSE Resolve(Step(S))


----------------------------------------------------------------------------
\* The #[cfg]-gated items of lib.rs.  An item is <<gate, name>>: the feature
\* its #[cfg(feature = ...)] tests and the identifier it brings into scope.

Gate(item) == item[1]
Name(item) == item[2]

\* Mutant: the serde_json items carry an added not(feature = "serde_yaml").
ActiveUnlessYaml(item, F) ==
    /\ Gate(item) \in F
    /\ ~(Gate(item) = "serde_json" /\ "serde_yaml" \in F)

\* An item compiles in exactly when its gate is among the active features.
Active(item, F) == Gate(item) \in F

\* The same for a list in which the gate "" marks an item without a #[cfg].
Compiled(item, F) == Gate(item) = "" \/ Active(item, F)

\* Mutant: the thiserror re-export carries the gate of the anyhow block.
RootItemsThiserrorUnderAnyhow ==
    { <<"anyhow", "anyhow">>, <<"base64", "base64">>, <<"chrono", "chrono">>,
      <<"clap", "clap">>, <<"glob", "glob">>,
      <<"lazy_static", "lazy_static">>, <<"libc", "libc">>,
      <<"portable-pty", "portable_pty">>, <<"rand", "rand">>,
      <<"regex", "regex">>, <<"serde", "serde">>,
      <<"serde_json", "serde_json">>, <<"serde_yaml", "serde_yaml">>,
      <<"strip-ansi-escapes", "strip_ansi_escapes">>, <<"tokio", "tokio">>,
      <<"urlencoding", "urlencoding">>, <<"uuid", "uuid">>,
      <<"unicode-width", "unicode_width">>, <<"criterion", "criterion">>,
      <<"anyhow", "thiserror">>, <<"tempfile", "tempfile">> }

\* Mutant: the serde_json re-export carries the gate of the serde_yaml block.
RootItemsJsonUnderYaml ==
    { <<"anyhow", "anyhow">>, <<"base64", "base64">>, <<"chrono", "chrono">>,
      <<"clap", "clap">>, <<"glob", "glob">>,
      <<"lazy_static", "lazy_static">>, <<"libc", "libc">>,
      <<"portable-pty", "portable_pty">>, <<"rand", "rand">>,
      <<"regex", "regex">>, <<"serde", "serde">>,
      <<"serde_yaml", "serde_json">>, <<"serde_yaml", "serde_yaml">>,
      <<"strip-ansi-escapes", "strip_ansi_escapes">>, <<"tokio", "tokio">>,
      <<"urlencoding", "urlencoding">>, <<"uuid", "uuid">>,
      <<"unicode-width", "unicode_width">>, <<"criterion", "criterion">>,
      <<"thiserror", "thiserror">>, <<"tempfile", "tempfile">> }

\* Crate root: `pub use <crate>;`
RootItems ==
    { <<"anyhow", "anyhow">>, <<"base64", "base64">>, <<"chrono", "chrono">>,
      <<"clap", "clap">>, <<"glob", "glob">>,
      <<"lazy_static", "lazy_static">>, <<"libc", "libc">>,
      <<"portable-pty", "portable_pty">>, <<"rand", "rand">>,
      <<"regex", "regex">>, <<"serde", "serde">>,
      <<"serde_json", "serde_json">>, <<"serde_yaml", "serde_yaml">>,
      <<"strip-ansi-escapes", "strip_ansi_escapes">>, <<"tokio", "tokio">>,
      <<"urlencoding", "urlencoding">>, <<"uuid", "uuid">>,
      <<"unicode-width", "unicode_width">>, <<"criterion", "criterion">>,
      <<"thiserror", "thiserror">>, <<"tempfile", "tempfile">> }

\* Mutant: the prelude misses the unicode_width re-export.
PreludeItemsNoUnicodeWidth ==
    { <<"anyhow", "anyhow">>, <<"base64", "base64">>, <<"chrono", "chrono">>,
      <<"clap", "clap">>, <<"glob", "glob">>,
      <<"lazy_static", "lazy_static">>, <<"libc", "libc">>,
      <<"portable-pty", "portable_pty">>, <<"rand", "rand">>,
      <<"regex", "regex">>, <<"serde", "serde">>,
      <<"serde_json", "serde_json">>, <<"serde_yaml", "serde_yaml">>,
      <<"strip-ansi-escapes", "strip_ansi_escapes">>, <<"tokio", "tokio">>,
      <<"urlencoding", "urlencoding">>, <<"uuid", "uuid">>,
      <<"criterion", "criterion">>,
      <<"thiserror", "thiserror">>, <<"tempfile", "tempfile">> }

\* mod prelude: `pub use super::<name>;`
PreludeItems ==
    { <<"anyhow", "anyhow">>, <<"base64", "base64">>, <<"chrono", "chrono">>,
      <<"clap", "clap">>, <<"glob", "glob">>,
      <<"lazy_static", "lazy_static">>, <<"libc", "libc">>,
      <<"portable-pty", "portable_pty">>, <<"rand", "rand">>,
      <<"regex", "regex">>, <<"serde", "serde">>,
      <<"serde_json", "serde_json">>, <<"serde_yaml", "serde_yaml">>,
      <<"strip-ansi-escapes", "strip_ansi_escapes">>, <<"tokio", "tokio">>,
      <<"urlencoding", "urlencoding">>, <<"uuid", "uuid">>,
      <<"unicode-width", "unicode_width">>, <<"criterion", "criterion">>,
      <<"thiserror", "thiserror">>, <<"tempfile", "tempfile">> }

\* The 11 group modules, declared without a #[cfg].
ExtModules ==
    { "text_ext", "data_ext", "time_ext", "web_ext", "system_ext",
      "terminal_ext", "random_ext", "async_ext", "cli_ext", "error_ext",
      "test_ext" }

\* Mutant: in cli_ext the anyhow re-export sits under the clap gate.
ExtItemsAnyhowUnderClap(m) ==
    CASE m = "text_ext"     -> { <<"regex", "regex">>,
                                 <<"lazy_static", "lazy_static">>,
                                 <<"strip-ansi-escapes", "strip_ansi_escapes">> }
      [] m = "data_ext"     -> { <<"serde", "serde">>,
                                 <<"serde_json", "serde_json">>,
                                 <<"serde_yaml", "serde_yaml">>,
                                 <<"base64", "base64">> }
      [] m = "time_ext"     -> { <<"chrono", "chrono">>, <<"uuid", "uuid">> }
      [] m = "web_ext"      -> { <<"urlencoding", "urlencoding">> }
      [] m = "system_ext"   -> { <<"libc", "libc">>, <<"glob", "glob">> }
      [] m = "terminal_ext" -> { <<"portable-pty", "portable_pty">> }
      [] m = "random_ext"   -> { <<"rand", "rand">> }
      [] m = "async_ext"    -> { <<"tokio", "tokio">> }
      [] m = "cli_ext"      -> { <<"clap", "clap">>, <<"clap", "anyhow">> }
      [] m = "error_ext"    -> { <<"anyhow", "anyhow">> }
      [] m = "test_ext"     -> { <<"criterion", "criterion">>,
                                 <<"tempfile", "tempfile">> }

\* Mutant: in data_ext the base64 gate is misspelt.
ExtItemsBase64Misspelt(m) ==
    CASE m = "text_ext"     -> { <<"regex", "regex">>,
                                 <<"lazy_static", "lazy_static">>,
                                 <<"strip-ansi-escapes", "strip_ansi_escapes">> }
      [] m = "data_ext"     -> { <<"serde", "serde">>,
                                 <<"serde_json", "serde_json">>,
                                 <<"serde_yaml", "serde_yaml">>,
                                 <<"base-64", "base64">> }
      [] m = "time_ext"     -> { <<"chrono", "chrono">>, <<"uuid", "uuid">> }
      [] m = "web_ext"      -> { <<"urlencoding", "urlencoding">> }
      [] m = "system_ext"   -> { <<"libc", "libc">>, <<"glob", "glob">> }
      [] m = "terminal_ext" -> { <<"portable-pty", "portable_pty">> }
      [] m = "random_ext"   -> { <<"rand", "rand">> }
      [] m = "async_ext"    -> { <<"tokio", "tokio">> }
      [] m = "cli_ext"      -> { <<"clap", "clap">>, <<"anyhow", "anyhow">> }
      [] m = "error_ext"    -> { <<"anyhow", "anyhow">> }
      [] m = "test_ext"     -> { <<"criterion", "criterion">>,
                                 <<"tempfile", "tempfile">> }

\* mod <group>: `pub use super::<name>;`
ExtItems(m) ==
    CASE m = "text_ext"     -> { <<"regex", "regex">>,
                                 <<"lazy_static", "lazy_static">>,
                                 <<"strip-ansi-escapes", "strip_ansi_escapes">> }
      [] m = "data_ext"     -> { <<"serde", "serde">>,
                                 <<"serde_json", "serde_json">>,
                                 <<"serde_yaml", "serde_yaml">>,
                                 <<"base64", "base64">> }
      [] m = "time_ext"     -> { <<"chrono", "chrono">>, <<"uuid", "uuid">> }
      [] m = "web_ext"      -> { <<"urlencoding", "urlencoding">> }
      [] m = "system_ext"   -> { <<"libc", "libc">>, <<"glob", "glob">> }
      [] m = "terminal_ext" -> { <<"portable-pty", "portable_pty">> }
      [] m = "random_ext"   -> { <<"rand", "rand">> }
      [] m = "async_ext"    -> { <<"tokio", "tokio">> }
      [] m = "cli_ext"      -> { <<"clap", "clap">>, <<"anyhow", "anyhow">> }
      [] m = "error_ext"    -> { <<"anyhow", "anyhow">> }
      [] m = "test_ext"     -> { <<"criterion", "criterion">>,
                                 <<"tempfile", "tempfile">> }

\* Modules declared at the crate root: <<gate, name>>, gate "" for no #[cfg].
ModuleItems ==
    { <<"", "prelude">>, <<"colors", "colors">> }
        \cup { <<"", m>> : m \in ExtModules }

\* enabled_features(): the push statements, <<gate, pushed string>>, in order.
PushItems ==
    << <<"anyhow", "anyhow">>, <<"base64", "base64">>, <<"chrono", "chrono">>,
       <<"clap", "clap">>, <<"glob", "glob">>,
       <<"lazy_static", "lazy_static">>, <<"libc", "libc">>,
       <<"portable-pty", "portable-pty">>, <<"rand", "rand">>,
       <<"regex", "regex">>, <<"serde", "serde">>,
       <<"serde_json", "serde_json">>, <<"serde_yaml", "serde_yaml">>,
       <<"strip-ansi-escapes", "strip-ansi-escapes">>, <<"tokio", "tokio">>,
       <<"urlencoding", "urlencoding">>, <<"uuid", "uuid">>,
       <<"unicode-width", "unicode-width">>, <<"criterion", "criterion">>,
       <<"thiserror", "thiserror">>, <<"tempfile", "tempfile">> >>

----------------------------------------------------------------------------
\* What rustc makes of the items under the active features F.
\* An export is [name |-> identifier, crate |-> the extern crate it denotes].

\* `pub use <crate>;` names the extern crate of the same identifier.
RootExports(F) ==
    { [name |-> Name(i), crate |-> Name(i)] : i \in { j \in RootItems : Active(j, F) } }

\* `super::<name>` looked up at the crate root; a missing name does not resolve.
Lookup(exports, n) ==
    IF \E e \in exports : e.name = n
    THEN (CHOOSE e \in exports : e.name = n).crate
    ELSE "unresolved"

PreludeExports(F) ==
    { [name |-> Name(i), crate |-> Lookup(RootExports(F), Name(i))] :
        i \in { j \in PreludeItems : Active(j, F) } }

ExtExports(m, F) ==
    { [name |-> Name(i), crate |-> Lookup(RootExports(F), Name(i))] :
        i \in { j \in ExtItems(m) : Active(j, F) } }

Modules(F) ==
    { Name(i) : i \in { j \in ModuleItems : Compiled(j, F) } }

RECURSIVE PushAll(_, _, _)
\* The body of enabled_features(): start from Vec::new(), run each compiled push.
PushAll(k, acc, F) ==
    IF k > Len(PushItems) THEN acc
    ELSE PushAll(k + 1,
                 IF Active(PushItems[k], F) THEN Append(acc, Name(PushItems[k])) ELSE acc,
                 F)

enabled_features(F) == PushAll(1, << >>, F)

----------------------------------------------------------------------------
\* The shaped module files: their explicit re-exports, <<gate, name>>, where
\* the gate "" marks a re-export without a #[cfg].

ShapedModules == { "serde", "serde_json", "clap", "tokio" }

\* Mutant: the Serialize and Deserialize re-exports wait for serde-derive.
ShapedItemsTraitsUnderDerive(m) ==
    CASE m = "serde" ->
            { <<"serde-derive", "Deserialize">>, <<"serde-derive", "Serialize">>,
              <<"", "Deserializer">>, <<"", "Serializer">>,
              <<"", "de">>, <<"", "DeserializeOwned">>,
              <<"", "ser">>, <<"", "SerializeStruct">>,
              <<"", "SerializeSeq">>, <<"", "SerializeMap">> }
      [] m = "serde_json" ->
            { <<"", "Map">>, <<"", "from_str">>, <<"", "to_string">>,
              <<"", "from_value">>, <<"", "to_value">>, <<"", "Value">> }
      [] m = "clap" ->
            { <<"", "Arg">>, <<"", "ArgMatches">>, <<"", "Command">>,
              <<"clap-full", "Parser">>, <<"clap-full", "Args">>,
              <<"clap-full", "Subcommand">>, <<"clap-full", "ValueEnum">>,
              <<"", "ArgAction">>, <<"", "builder">> }
      [] m = "tokio" ->
            { <<"", "main">>, <<"", "test">>, <<"", "spawn">>,
              <<"tokio-full", "join">>, <<"tokio-full", "select">>,
              <<"tokio-full", "time">> }

\* Mutant: the join re-export of tokio lost its gate.
ShapedItemsTokioUngated(m) ==
    CASE m = "serde" ->
            { <<"", "Deserialize">>, <<"", "Serialize">>,
              <<"", "Deserializer">>, <<"", "Serializer">>,
              <<"", "de">>, <<"", "DeserializeOwned">>,
              <<"", "ser">>, <<"", "SerializeStruct">>,
              <<"", "SerializeSeq">>, <<"", "SerializeMap">> }
      [] m = "serde_json" ->
            { <<"", "Map">>, <<"", "from_str">>, <<"", "to_string">>,
              <<"", "from_value">>, <<"", "to_value">>, <<"", "Value">> }
      [] m = "clap" ->
            { <<"", "Arg">>, <<"", "ArgMatches">>, <<"", "Command">>,
              <<"clap-full", "Parser">>, <<"clap-full", "Args">>,
              <<"clap-full", "Subcommand">>, <<"clap-full", "ValueEnum">>,
              <<"", "ArgAction">>, <<"", "builder">> }
      [] m = "tokio" ->
            { <<"", "main">>, <<"", "test">>, <<"", "spawn">>,
              <<"", "join">>, <<"tokio-full", "select">>,
              <<"tokio-full", "time">> }

ShapedItems(m) ==
    CASE m = "serde" ->
            { <<"", "Deserialize">>, <<"", "Serialize">>,
              <<"", "Deserializer">>, <<"", "Serializer">>,
              <<"", "de">>, <<"", "DeserializeOwned">>,
              <<"", "ser">>, <<"", "SerializeStruct">>,
              <<"", "SerializeSeq">>, <<"", "SerializeMap">> }
      [] m = "serde_json" ->
            { <<"", "Map">>, <<"", "from_str">>, <<"", "to_string">>,
              <<"", "from_value">>, <<"", "to_value">>, <<"", "Value">> }
      [] m = "clap" ->
            { <<"", "Arg">>, <<"", "ArgMatches">>, <<"", "Command">>,
              <<"clap-full", "Parser">>, <<"clap-full", "Args">>,
              <<"clap-full", "Subcommand">>, <<"clap-full", "ValueEnum">>,
              <<"", "ArgAction">>, <<"", "builder">> }
      [] m = "tokio" ->
            { <<"", "main">>, <<"", "test">>, <<"", "spawn">>,
              <<"tokio-full", "join">>, <<"tokio-full", "select">>,
              <<"tokio-full", "time">> }

ShapedExports(m, F) ==
    { Name(i) : i \in { j \in ShapedItems(m) : Compiled(j, F) } }

\* The derive proc-macros that the glob re-export of serde carries when the
\* dependency is built with its derive feature.
DeriveMacros(D) ==
    IF "serde/derive" \in D
    THEN { "derive(Serialize)", "derive(Deserialize)" }
    ELSE {}

----------------------------------------------------------------------------
\* The build

VARIABLES
    selection,    \* features the consumer names in its manifest
    cfg,          \* hub features active in the build
    depFeatures,  \* dependency features active in the build
    root,         \* crate-root re-exports
    prelude,      \* members of hub::prelude
    ext,          \* members of each group module
    modules,      \* modules declared at the crate root
    shaped,       \* explicit re-exports of each shaped module file
    macros,       \* derive macros reachable through hub::serde
    listed        \* the value enabled_features() returns

vars ==
    << selection, cfg, depFeatures, root, prelude, ext, modules, shaped,
       macros, listed >>

\* cargo resolves the selection, rustc compiles the crate under the result.
Build(S) ==
    LET R == Resolve(S)
        F == R \cap HubFeatures
        D == R \cap DepFeatures
    IN  /\ selection' = S
        /\ cfg' = F
        /\ depFeatures' = D
        /\ root' = RootExports(F)
        /\ prelude' = PreludeExports(F)
        /\ ext' = [ m \in ExtModules |-> ExtExports(m, F) ]
        /\ modules' = Modules(F)
        /\ shaped' = [ m \in ShapedModules |-> ShapedExports(m, F) ]
        /\ macros' = IF "serde" \in F THEN DeriveMacros(D) ELSE {}
        /\ listed' = enabled_features(F)

\* The build with no feature selected.
Init ==
    /\ selection = {}
    /\ cfg = {}
    /\ depFeatures = {}
    /\ root = RootExports({})
    /\ prelude = PreludeExports({})
    /\ ext = [ m \in ExtModules |-> ExtExports(m, {}) ]
    /\ modules = Modules({})
    /\ shaped = [ m \in ShapedModules |-> ShapedExports(m, {}) ]
    /\ macros = {}
    /\ listed = enabled_features({})

\* The consumer adds a feature to its selection and rebuilds.
AddFeature(f) ==
    /\ f \notin selection
    /\ Cardinality(selection) < MaxSelected
    /\ Build(selection \cup {f})

\* The consumer drops a feature from its selection and rebuilds.
RemoveFeature(f) ==
    /\ f \in selection
    /\ Build(selection \ {f})

Next ==
    \/ \E f \in HubFeatures : AddFeature(f)
    \/ \E f \in HubFeatures : RemoveFeature(f)

Spec == Init /\ [][Next]_vars

----------------------------------------------------------------------------
\* Vocabulary of the properties

\* The identifier under which rustc knows the crate of a package: hyphens of
\* the package name become underscores.
CrateIdent(p) ==
    CASE p = "portable-pty"       -> "portable_pty"
      [] p = "strip-ansi-escapes" -> "strip_ansi_escapes"
      [] p = "unicode-width"      -> "unicode_width"
      [] OTHER                    -> p

\* The packages the crate documentation lists for each group module.
DocGroups(m) ==
    CASE m = "text_ext"     -> { "regex", "lazy_static", "strip-ansi-escapes" }
      [] m = "data_ext"     -> { "serde", "serde_json", "base64", "serde_yaml" }
      [] m = "time_ext"     -> { "chrono", "uuid" }
      [] m = "web_ext"      -> { "urlencoding" }
      [] m = "system_ext"   -> { "libc", "glob" }
      [] m = "terminal_ext" -> { "portable-pty" }
      [] m = "random_ext"   -> { "rand" }
      [] m = "async_ext"    -> { "tokio" }
      [] m = "cli_ext"      -> { "clap", "anyhow" }
      [] m = "error_ext"    -> { "anyhow", "thiserror" }
      [] m = "test_ext"     -> { "criterion", "tempfile" }

Names(exports) == { e.name : e \in exports }
Crates(exports) == { e.crate : e \in exports }
Entries(list) == { list[k] : k \in 1..Len(list) }

----------------------------------------------------------------------------
\* Properties

\* C1: for each of the 21 gated external crates, the crate root re-exports
\* the crate if and only if the feature named like its package is active.
RootExportIffOwnFeature ==
    \A p \in CrateFeatures :
        (\E e \in root : e.name = CrateIdent(p) /\ e.crate = CrateIdent(p))
            <=> p \in cfg

\* C1 witness: a build with portable-pty on and regex off, portable_pty
\* re-exported at the root.
RootExportWitness ==
    /\ "portable-pty" \in cfg
    /\ "regex" \notin cfg
    /\ [name |-> "portable_pty", crate |-> "portable_pty"] \in root

\* C2: hub::prelude has exactly the members the crate root re-exports, each
\* denoting the same crate.
PreludeMirrorsRoot == prelude = root

\* C2 witness: a build whose prelude has unicode_width and one more member.
PreludeMirrorsRootWitness ==
    /\ "unicode_width" \in Names(prelude)
    /\ Cardinality(prelude) >= 2

\* C3 (as claimed): each of the 21 crate features and `colors` is in the list
\* enabled_features() returns iff it is active, and no entry repeats.
EnabledFeaturesListsGatingFeatures ==
    /\ \A f \in CrateFeatures \cup { "colors" } : f \in Entries(listed) <=> f \in cfg
    /\ Cardinality(Entries(listed)) = Len(listed)

\* C4 (as claimed): every group module exposes exactly the crates of the
\* packages the documentation lists for it, each when its feature is active.
GroupModulesMatchDocs ==
    \A m \in ExtModules :
        Crates(ext[m]) = { CrateIdent(p) : p \in DocGroups(m) \cap cfg }

\* C5: what a group module exposes is also re-exported at the crate root and
\* in the prelude, under the same name and denoting the same extern crate.
GroupPathsAgreeWithRoot ==
    \A m \in ExtModules :
        \A e \in ext[m] :
            /\ e.crate # "unresolved"
            /\ e \in root
            /\ e \in prelude

\* C5 witness: serde_json reachable through data_ext, anyhow through cli_ext.
GroupPathsWitness ==
    /\ "serde_json" \in Names(ext["data_ext"])
    /\ "anyhow" \in Names(ext["cli_ext"])

\* C6: selecting data-ext makes serde, serde_json and base64 members of
\* hub::data_ext, with the derive macros of serde available.
DataExtBundle ==
    "data-ext" \in selection =>
        /\ { "serde", "serde_json", "base64" } \subseteq Crates(ext["data_ext"])
        /\ { "derive(Serialize)", "derive(Deserialize)" } \subseteq macros

\* C6 witness: data-ext selected alone, base64 a member of data_ext.
DataExtBundleWitness ==
    /\ selection = { "data-ext" }
    /\ "base64" \in Names(ext["data_ext"])

\* C7: selecting json makes serde (Serialize, Deserialize and their derive
\* macros) and serde_json (from_str, to_string, Value) available at the crate
\* root and through hub::data_ext.
JsonConvenience ==
    "json" \in selection =>
        /\ { "serde", "serde_json" } \subseteq Crates(root)
        /\ { "serde", "serde_json" } \subseteq Crates(ext["data_ext"])
        /\ { "Serialize", "Deserialize" } \subseteq shaped["serde"]
        /\ { "derive(Serialize)", "derive(Deserialize)" } \subseteq macros
        /\ { "from_str", "to_string", "Value" } \subseteq shaped["serde_json"]

\* C7 witness: json selected alone, serde_json re-exported at the root.
JsonConvenienceWitness ==
    /\ selection = { "json" }
    /\ "serde_json" \in Names(root)

\* C8: with serde active and serde-derive not, hub::serde is there with the
\* four traits; with serde-json active and serde-derive not, hub::serde_json
\* is there with from_str and Value.
BaseItemsWithoutDerive ==
    /\ ("serde" \in cfg /\ "serde-derive" \notin cfg) =>
            /\ "serde" \in Crates(root)
            /\ { "Serialize", "Deserialize", "Serializer", "Deserializer" }
                   \subseteq shaped["serde"]
    /\ ("serde-json" \in cfg /\ "serde-derive" \notin cfg) =>
            /\ "serde_json" \in Crates(root)
            /\ { "from_str", "Value" } \subseteq shaped["serde_json"]

\* C8 witness: serde and serde-json active, serde-derive not, no derive macro.
BaseItemsWithoutDeriveWitness ==
    /\ "serde" \in cfg
    /\ "serde-json" \in cfg
    /\ "serde-derive" \notin cfg
    /\ macros = {}
    /\ "Serializer" \in shaped["serde"]

\* C9: the clap derive items are explicit re-exports iff clap-full is active,
\* tokio's join, select and time iff tokio-full is active, and the other
\* explicit re-exports of both files are there under every selection.
FullItemsGatedByFull ==
    /\ \A n \in { "Parser", "Args", "Subcommand", "ValueEnum" } :
            n \in shaped["clap"] <=> "clap-full" \in cfg
    /\ \A n \in { "join", "select", "time" } :
            n \in shaped["tokio"] <=> "tokio-full" \in cfg
    /\ { "Arg", "ArgMatches", "Command", "ArgAction", "builder" }
            \subseteq shaped["clap"]
    /\ { "main", "test", "spawn" } \subseteq shaped["tokio"]

\* C9 witness: clap-full active and tokio-full not, Parser re-exported and
\* join not.
FullItemsWitness ==
    /\ "clap-full" \in cfg
    /\ "tokio-full" \notin cfg
    /\ "Parser" \in shaped["clap"]
    /\ "join" \notin shaped["tokio"]

\* What a build makes visible never shrinks when the selection grows.
Grows ==
    selection \subseteq selection' =>
        /\ root \subseteq root'
        /\ prelude \subseteq prelude'
        /\ \A m \in ExtModules : ext[m] \subseteq ext'[m]
        /\ modules \subseteq modules'
        /\ \A m \in ShapedModules : shaped[m] \subseteq shaped'[m]
        /\ Entries(listed) \subseteq Entries(listed')

\* The prelude and the group modules exist in every build; in the build of the
\* empty selection they have no member and enabled_features() is empty.
FacadeAlwaysThere ==
    /\ { "prelude" } \cup ExtModules \subseteq modules
    /\ selection = {} =>
            /\ root = {}
            /\ prelude = {}
            /\ \A m \in ExtModules : ext[m] = {}
            /\ listed = << >>

\* C10: features are additive (a larger selection shows every item a smaller
\* one shows), and the prelude and the 11 group modules exist under every
\* selection, empty under the empty one.
FeaturesAdditive == []FacadeAlwaysThere /\ [][Grows]_vars

\* C10 witness: a selection of two features, one of them serde_yaml, with
\* serde_json re-exported beside it.
FeaturesAdditiveWitness ==
    /\ Cardinality(selection) = 2
    /\ "serde_yaml" \in selection
    /\ "serde_json" \in Names(root)
    /\ "serde_json" \in Entries(listed)

====
